---- MODULE Spec2Model ----
(***************************************************************************)
(* Model of the arcade-minimap extension (src/minimap.ts).                 *)
(*                                                                         *)
(* Images are values [width, height, px]; objects that the program shares  *)
(* by reference (images, Minimap objects) live in append-only heaps and    *)
(* are named by their index.  The refresh tick registered by               *)
(* updateMiniMapEvery runs to completion on the single game thread, so it  *)
(* is one action.                                                          *)
(***************************************************************************)
EXTENDS Integers, Sequences, FiniteSets, TLC

VARIABLES
    tilemap,          \* game.currentScene().tileMap, or NoTilemap
    spriteTable,      \* the host's sprites: id -> [x, y, image, flags]
    minimapSprite,    \* namespace variable minimapSprite: Unset or [image, data]
    spritesToUpdate,  \* namespace variable spritesToUpdate
    images,           \* heap of Image objects
    minimaps,         \* heap of Minimap objects [image, scale, borderWidth, borderColor]
    scheduled,        \* whether a callback is registered with game.onUpdateInterval
    fault,            \* "none", or the run-time error that stopped the program
    lastOp,           \* trace of the last operation executed
    call,             \* arguments of a direct call of a pure operation
    ret               \* what that call did

vars == <<tilemap, spriteTable, minimapSprite, spritesToUpdate, images,
          minimaps, scheduled, fault, lastOp, call, ret>>

\* the null reference; sprites and heap objects are numbered from 1
NULL == 0

\* the value of minimapSprite before createMinimapSprite has assigned it
Unset == [image |-> NULL, data |-> NULL]

\* game.currentScene().tileMap of a scene without a tile map
NoTilemap == [scale |-> 0, rows |-> 0, cols |-> 0, tiles |-> [cr \in {} |-> 0]]

----------------------------------------------------------------------------
(* Bounds of the model.                                                    *)

NumSprites == 1      \* host sprites that exist
MaxList == 2         \* longest spritesToUpdate explored
MaxSrc == 3          \* largest source image side given to renderScaledImage
MaxOrigin == 1       \* largest origin coordinate given to renderScaledImage
MaxGrid == 2         \* largest numRows / numCols of a tile grid
MaxTileScale == 3    \* largest tilemap.scale (tiles are 2^scale wide)
MaxBorder == 1       \* largest borderWidth

(* Program constants.                                                      *)

Sixteenth == 4       \* last member of enum MinimapScale
Octuple == 3         \* last member of enum MinimapSpriteScale

MinimapScale == 0..Sixteenth
MinimapSpriteScale == 0..Octuple

----------------------------------------------------------------------------
(* Number helpers.                                                         *)

Pow2(n) == 2 ^ n

\* a >> s on a 32-bit integer: arithmetic shift, i.e. floor division
Shr(a, s) == a \div Pow2(s)

Max(a, b) == IF a >= b THEN a ELSE b

----------------------------------------------------------------------------
(* The host image primitive.                                               *)

Pixels(w, h) == (0..(w - 1)) \X (0..(h - 1))

\* image.create(w, h): every pixel 0
ImageCreate(w, h) == [width |-> w, height |-> h, px |-> [p \in Pixels(w, h) |-> 0]]

\* Image.fill(c)
ImageFill(img, c) == [img EXCEPT !.px = [p \in DOMAIN @ |-> c]]

\* Image.getPixel(i, j)
GetPixel(img, i, j) == img.px[<<i, j>>]

InImage(img, x, y) == x >= 0 /\ x < img.width /\ y >= 0 /\ y < img.height

----------------------------------------------------------------------------
(* renderScaledImage                                                       *)

\* the values taken by a loop variable: for (i = 0; i < n; i += 1 << scale)
LoopIndices(n, scale) == {i \in 0..(n - 1) : i % Pow2(scale) = 0}

\* the source coordinates <<i, j>> at which the inner if-statement is true
RenderSamples(source, scale) ==
    {ij \in LoopIndices(source.width, scale) \X LoopIndices(source.height, scale) :
        GetPixel(source, ij[1], ij[2]) # 0}

\* the setPixel calls made: [x, y, c]
RenderWrites(source, x, y, scale) ==
    {[x |-> x + Shr(ij[1], scale), y |-> y + Shr(ij[2], scale),
      c |-> GetPixel(source, ij[1], ij[2])] : ij \in RenderSamples(source, scale)}

\* renderScaledImage without the test for a transparent source pixel
renderScaledImageNoTest(source, destination, x, y, scale) ==
    [destination EXCEPT !.px =
        [p \in DOMAIN @ |->
            LET i == (p[1] - x) * Pow2(scale)
                j == (p[2] - y) * Pow2(scale)
            IN  IF /\ i >= 0 /\ i < source.width
                   /\ j >= 0 /\ j < source.height
                THEN GetPixel(source, i, j)
                ELSE @[p]]]

\* The destination after the call.  Each destination pixel is the target of
\* at most one iteration, the one with i = (px - x) << scale; setPixel
\* outside the image has no pixel to change.
renderScaledImage(source, destination, x, y, scale) ==
    [destination EXCEPT !.px =
        [p \in DOMAIN @ |->
            LET i == (p[1] - x) * Pow2(scale)
                j == (p[2] - y) * Pow2(scale)
            IN  IF /\ i >= 0 /\ i < source.width
                   /\ j >= 0 /\ j < source.height
                   /\ GetPixel(source, i, j) # 0
                THEN GetPixel(source, i, j)
                ELSE @[p]]]

----------------------------------------------------------------------------
(* The host tile map: [scale, rows, cols, tiles], tiles[<<c, r>>] an index *)
(* into the tile set.                                                      *)

areaHeight(tm) == tm.rows * Pow2(tm.scale)
areaWidth(tm) == tm.cols * Pow2(tm.scale)
getTileIndex(tm, c, r) == tm.tiles[<<c, r>>]

\* tilemap.getTileImage(idx): tile 0 is transparent, tile 1 is solid colour
\* 1, tile 2 has colour 2 on every other pixel and is transparent elsewhere
getTileImage(tm, idx) ==
    LET tw == Pow2(tm.scale)
    IN  [width |-> tw, height |-> tw,
         px |-> [p \in Pixels(tw, tw) |->
                    CASE idx = 0 -> 0
                      [] idx = 1 -> 1
                      [] OTHER -> IF (p[1] + p[2]) % 2 = 0 THEN 2 ELSE 0]]

----------------------------------------------------------------------------
(* getMinimapObject                                                        *)

numRowsOf(tm) == Shr(areaHeight(tm), tm.scale)
numColsOf(tm) == Shr(areaWidth(tm), tm.scale)
tileWidthOf(tm) == Pow2(tm.scale)

MinimapWidth(tm, scale, borderWidth) ==
    Shr(numColsOf(tm) * tileWidthOf(tm), scale) + borderWidth * 2
MinimapHeight(tm, scale, borderWidth) ==
    Shr(numRowsOf(tm) * tileWidthOf(tm), scale) + borderWidth * 2

TileNx(tm, c, scale, borderWidth) == Shr(c * tileWidthOf(tm), scale) + borderWidth
TileNy(tm, r, scale, borderWidth) == Shr(r * tileWidthOf(tm), scale) + borderWidth

\* the setPixel calls of the whole tile loop
TileWrites(tm, scale, borderWidth) ==
    UNION {RenderWrites(getTileImage(tm, getTileIndex(tm, cr[1], cr[2])),
                        TileNx(tm, cr[1], scale, borderWidth),
                        TileNy(tm, cr[2], scale, borderWidth), scale) :
           cr \in (0..(numColsOf(tm) - 1)) \X (0..(numRowsOf(tm) - 1))}

\* the loops over r and c, from cell number k on (row-major: r outer, c inner)
RECURSIVE StampTiles(_, _, _, _, _)
StampTiles(tm, img, scale, borderWidth, k) ==
    IF k >= numRowsOf(tm) * numColsOf(tm) THEN img
    ELSE LET r == k \div numColsOf(tm)
             c == k % numColsOf(tm)
             tile == getTileImage(tm, getTileIndex(tm, c, r))
         IN  StampTiles(tm,
                        renderScaledImage(tile, img,
                                          TileNx(tm, c, scale, borderWidth),
                                          TileNy(tm, r, scale, borderWidth), scale),
                        scale, borderWidth, k + 1)

\* the image of the Minimap object returned
MinimapImage(tm, scale, borderWidth, borderColor) ==
    IF tm = NoTilemap THEN ImageCreate(1, 1)
    ELSE LET blank == ImageCreate(MinimapWidth(tm, scale, borderWidth),
                                  MinimapHeight(tm, scale, borderWidth))
             filled == IF borderWidth > 0 THEN ImageFill(blank, borderColor) ELSE blank
         IN  StampTiles(tm, filled, scale, borderWidth, 0)

\* the Minimap object returned, its image by value
getMinimapObject(tm, scale, borderWidth, borderColor) ==
    [image |-> MinimapImage(tm, scale, borderWidth, borderColor),
     scale |-> scale, borderWidth |-> borderWidth, borderColor |-> borderColor]

----------------------------------------------------------------------------
(* includeSprite; a sprite is [x, y, image, flags], a minimap              *)
(* [image, scale, borderWidth, borderColor] with its image by value.       *)

SpriteWidth(sprite) == sprite.image.width
SpriteHeight(sprite) == sprite.image.height

OverlayScale(minimap, spriteScale) == Max(minimap.scale - spriteScale, 0)

\* (sprite.width / 2) >> scale: the shift truncates the quotient first
OverlayX(minimap, sprite, spriteScale) ==
    Shr(sprite.x, minimap.scale)
        - Shr(SpriteWidth(sprite) \div 2, OverlayScale(minimap, spriteScale))
        + minimap.borderWidth
OverlayY(minimap, sprite, spriteScale) ==
    Shr(sprite.y, minimap.scale)
        - Shr(SpriteHeight(sprite) \div 2, OverlayScale(minimap, spriteScale))
        + minimap.borderWidth

\* the setPixel calls of includeSprite
OverlayWrites(minimap, sprite, spriteScale) ==
    RenderWrites(sprite.image, OverlayX(minimap, sprite, spriteScale),
                 OverlayY(minimap, sprite, spriteScale),
                 OverlayScale(minimap, spriteScale))

\* minimap.image after includeSprite
includeSprite(minimap, sprite, spriteScale) ==
    renderScaledImage(sprite.image, minimap.image,
                      OverlayX(minimap, sprite, spriteScale),
                      OverlayY(minimap, sprite, spriteScale),
                      OverlayScale(minimap, spriteScale))

----------------------------------------------------------------------------
(* The heaps: functions from the references in use to the objects.  The    *)
(* objects the program cannot reach any more are reclaimed before the next *)
(* operation runs.                                                         *)

EmptyHeap == <<>>

FreshId(heap) ==
    CHOOSE n \in 1..(Cardinality(DOMAIN heap) + 1) :
        /\ n \notin DOMAIN heap
        /\ \A m \in 1..(n - 1) : m \in DOMAIN heap

Store(heap, id, object) ==
    [k \in DOMAIN heap \cup {id} |-> IF k = id THEN object ELSE heap[k]]

Collect(heap, live) == [k \in DOMAIN heap \cap live |-> heap[k]]

\* what the program reaches from minimapSprite
LiveMinimaps(ms) == IF ms = Unset THEN {} ELSE {ms.data}
LiveImages(ms, mms) == IF ms = Unset THEN {} ELSE {ms.image, mms[ms.data].image}

----------------------------------------------------------------------------
(* The update list.                                                        *)

Sprites == 1..NumSprites
SpriteRefs == Sprites \cup {NULL}

\* addSpriteToUpdateList that skips a sprite it already tracks
addSpriteToUpdateListOnce(list, sprite, spriteScale) ==
    IF \E i \in 1..Len(list) : list[i].sprite = sprite THEN list
    ELSE Append(list, [sprite |-> sprite, scale |-> spriteScale])

\* spritesToUpdate.push({sprite: sprite, scale: spriteScale})
addSpriteToUpdateList(list, sprite, spriteScale) ==
    Append(list, [sprite |-> sprite, scale |-> spriteScale])

\* removeSpriteFromUpdateList that removes the first matching entry only
removeSpriteFromUpdateListFirst(list, sprite) ==
    IF \E i \in 1..Len(list) : list[i].sprite = sprite
    THEN LET i == CHOOSE i \in 1..Len(list) :
                    /\ list[i].sprite = sprite
                    /\ \A j \in 1..(i - 1) : list[j].sprite # sprite
         IN  SubSeq(list, 1, i - 1) \o SubSeq(list, i + 1, Len(list))
    ELSE list

\* spritesToUpdate.filter(u => u.sprite !== sprite)
removeSpriteFromUpdateList(list, sprite) ==
    SelectSeq(list, LAMBDA u : u.sprite # sprite)

\* isDestroyed that tests the reference only, not the flag
isDestroyedNullOnly(table, sprite) == sprite = NULL

\* !sprite || !!(sprite.flags & sprites.Flag.Destroyed)
isDestroyed(table, sprite) ==
    sprite = NULL \/ "Destroyed" \in table[sprite].flags

----------------------------------------------------------------------------
(* The callback of updateMiniMapEvery.                                      *)

\* includeSprite given oldMM, as if line 164 came after the loop
OverlayTargetOld(oldData, newData) == oldData

\* the Minimap object includeSprite is given at line 167: minimapSprite.data,
\* read after line 164 has stored newMM in it
OverlayTarget(oldData, newData) == newData

\* a Minimap object of the heap with its image by value
Deref(mms, imgs, m) ==
    [image |-> imgs[mms[m].image], scale |-> mms[m].scale,
     borderWidth |-> mms[m].borderWidth, borderColor |-> mms[m].borderColor]

\* the loop without its else branch: a destroyed sprite is skipped, not removed
RECURSIVE UpdateLoopNoUntrack(_, _, _, _, _, _)
UpdateLoopNoUntrack(snapshot, k, table, mms, target, st) ==
    IF k > Len(snapshot) THEN st
    ELSE LET updateSprite == snapshot[k]
         IN  IF ~isDestroyed(table, updateSprite.sprite)
             THEN UpdateLoopNoUntrack(snapshot, k + 1, table, mms, target,
                    [st EXCEPT
                        !.imgs[mms[target].image] =
                            includeSprite(Deref(mms, st.imgs, target),
                                          table[updateSprite.sprite],
                                          updateSprite.scale),
                        !.stamps = Append(@, updateSprite)])
             ELSE UpdateLoopNoUntrack(snapshot, k + 1, table, mms, target, st)

\* the for-of loop over the copy spritesToUpdate.slice(), from element k on;
\* st = [list, imgs, stamps]: the live list, the image heap, and the
\* includeSprite calls made so far
RECURSIVE UpdateLoop(_, _, _, _, _, _)
UpdateLoop(snapshot, k, table, mms, target, st) ==
    IF k > Len(snapshot) THEN st
    ELSE LET updateSprite == snapshot[k]
         IN  IF ~isDestroyed(table, updateSprite.sprite)
             THEN UpdateLoop(snapshot, k + 1, table, mms, target,
                    [st EXCEPT
                        !.imgs[mms[target].image] =
                            includeSprite(Deref(mms, st.imgs, target),
                                          table[updateSprite.sprite],
                                          updateSprite.scale),
                        !.stamps = Append(@, updateSprite)])
             ELSE UpdateLoop(snapshot, k + 1, table, mms, target,
                    [st EXCEPT
                        !.list = removeSpriteFromUpdateList(@, updateSprite.sprite)])

----------------------------------------------------------------------------
(* The state machine of the tracker.                                       *)

BorderColor == 3
TrackerScales == {1}             \* scales given to createMinimapSprite
TrackerBorders == {1}            \* border widths given to createMinimapSprite
TrackerSpriteScales == {0, 1}    \* scales given to addSpriteToUpdateList

\* the tile grid of the scene: 2 x 1 tiles of 2 x 2 pixels
SceneTilemap ==
    [scale |-> 1, rows |-> 1, cols |-> 2,
     tiles |-> [cr \in (0..1) \X (0..0) |-> 1 + cr[1]]]

\* the image of sprite s: 2 x 2, colour 3 + s, the odd sprites with a
\* transparent pixel
SpriteImage(s) ==
    [width |-> 2, height |-> 2,
     px |-> [p \in Pixels(2, 2) |->
                IF s % 2 = 1 /\ p = <<1, 1>> THEN 0 ELSE 3 + s]]

NoOp == [op |-> "none", before |-> <<>>, sprite |-> NULL, scale |-> 0,
         stamps |-> <<>>, old |-> Unset, imagesBefore |-> <<>>,
         minimapsBefore |-> <<>>]
NoCall == [op |-> "none"]

Init ==
    /\ tilemap = SceneTilemap
    /\ spriteTable = [s \in Sprites |->
            [x |-> 1 + 2 * ((s - 1) % 2), y |-> 1, image |-> SpriteImage(s),
             flags |-> {}]]
    /\ minimapSprite = Unset
    /\ spritesToUpdate = <<>>
    /\ images = EmptyHeap
    /\ minimaps = EmptyHeap
    /\ scheduled = FALSE
    /\ fault = "none"
    /\ lastOp = NoOp
    /\ call = NoCall
    /\ ret = NoCall

\* the heaps without the objects the program cannot reach
Reclaim ==
    /\ images' = Collect(images, LiveImages(minimapSprite, minimaps))
    /\ minimaps' = Collect(minimaps, LiveMinimaps(minimapSprite))

\* createMinimapSprite(scale, borderWidth, borderColor): the heaps and
\* minimapSprite after it
createMinimapSprite(tm, imgs, mms, scale, borderWidth, borderColor) ==
    LET minimap == getMinimapObject(tm, scale, borderWidth, borderColor)
        img == FreshId(imgs)
        mm == FreshId(mms)
    IN  [images |-> Store(imgs, img, minimap.image),
         minimaps |-> Store(mms, mm, [minimap EXCEPT !.image = img]),
         \* sprites.create(minimap.image, MiniMapKind); minimapSprite.data = minimap
         minimapSprite |-> [image |-> img, data |-> mm]]

CreateMinimapSprite(scale, borderWidth, borderColor) ==
    /\ fault = "none"
    /\ \E r \in {createMinimapSprite(tilemap,
                    Collect(images, LiveImages(minimapSprite, minimaps)),
                    Collect(minimaps, LiveMinimaps(minimapSprite)),
                    scale, borderWidth, borderColor)} :
            /\ images' = r.images
            /\ minimaps' = r.minimaps
            /\ minimapSprite' = r.minimapSprite
    /\ lastOp' = [NoOp EXCEPT !.op = "createMinimapSprite"]
    /\ UNCHANGED <<tilemap, spriteTable, spritesToUpdate, scheduled, fault, call, ret>>

\* addSpriteToUpdateList(sprite, spriteScale)
AddSpriteToUpdateList(sprite, spriteScale) ==
    /\ fault = "none"
    /\ Len(spritesToUpdate) < MaxList
    /\ spritesToUpdate' = addSpriteToUpdateList(spritesToUpdate, sprite, spriteScale)
    /\ lastOp' = [NoOp EXCEPT !.op = "addSpriteToUpdateList",
                              !.before = spritesToUpdate,
                              !.sprite = sprite, !.scale = spriteScale]
    /\ Reclaim
    /\ UNCHANGED <<tilemap, spriteTable, minimapSprite, scheduled, fault, call, ret>>

\* removeSpriteFromUpdateList(sprite)
RemoveSpriteFromUpdateList(sprite) ==
    /\ fault = "none"
    /\ spritesToUpdate' = removeSpriteFromUpdateList(spritesToUpdate, sprite)
    /\ lastOp' = [NoOp EXCEPT !.op = "removeSpriteFromUpdateList",
                              !.sprite = sprite]
    /\ Reclaim
    /\ UNCHANGED <<tilemap, spriteTable, minimapSprite, scheduled, fault, call, ret>>

\* updateMiniMapEvery(updateInterval): registers the callback.  Every
\* registration adds the same closure, so what matters is whether there is one.
UpdateMiniMapEvery ==
    /\ fault = "none"
    /\ scheduled' = TRUE
    /\ lastOp' = [NoOp EXCEPT !.op = "updateMiniMapEvery"]
    /\ Reclaim
    /\ UNCHANGED <<tilemap, spriteTable, minimapSprite, spritesToUpdate, fault,
                   call, ret>>

\* the callback of updateMiniMapEvery, run with minimapSprite set: the
\* namespace variables and the heaps after it, and what it did
RefreshTick(tm, table, ms, list, imgs0, mms0) ==
    LET oldMM == mms0[ms.data]
        newMM == getMinimapObject(tm, oldMM.scale, oldMM.borderWidth, oldMM.borderColor)
        img == FreshId(imgs0)
        mm == FreshId(mms0)
        mms == Store(mms0, mm, [newMM EXCEPT !.image = img])
        st == UpdateLoop(list, 1, table, mms, OverlayTarget(ms.data, mm),
                         [list |-> list, imgs |-> Store(imgs0, img, newMM.image),
                          stamps |-> <<>>])
    IN  [minimaps |-> mms,
         images |-> st.imgs,
         spritesToUpdate |-> st.list,
         \* minimapSprite.data = newMM; minimapSprite.setImage(newMM.image)
         minimapSprite |-> [image |-> mms[mm].image, data |-> mm],
         stamps |-> st.stamps]

\* the scheduler runs a registered callback
Tick ==
    /\ fault = "none"
    /\ scheduled
    /\ IF minimapSprite = Unset
       THEN \* line 162 reads .data of an unset variable
            /\ fault' = "dereference of unset minimapSprite"
            /\ lastOp' = [NoOp EXCEPT !.op = "tick failed"]
            /\ Reclaim
            /\ UNCHANGED <<minimapSprite, spritesToUpdate>>
       ELSE /\ \E imgs \in {Collect(images, LiveImages(minimapSprite, minimaps))},
                  mms \in {Collect(minimaps, LiveMinimaps(minimapSprite))} :
                \E r \in {RefreshTick(tilemap, spriteTable, minimapSprite,
                                      spritesToUpdate, imgs, mms)} :
                    /\ minimaps' = r.minimaps
                    /\ images' = r.images
                    /\ spritesToUpdate' = r.spritesToUpdate
                    /\ minimapSprite' = r.minimapSprite
                    /\ lastOp' = [NoOp EXCEPT !.op = "tick",
                                              !.before = spritesToUpdate,
                                              !.stamps = r.stamps,
                                              !.old = minimapSprite,
                                              !.imagesBefore = imgs,
                                              !.minimapsBefore = mms]
            /\ fault' = fault
    /\ UNCHANGED <<tilemap, spriteTable, scheduled, call, ret>>

\* the host destroys a sprite
DestroySprite(s) ==
    /\ fault = "none"
    /\ "Destroyed" \notin spriteTable[s].flags
    /\ spriteTable' = [spriteTable EXCEPT ![s].flags = @ \cup {"Destroyed"}]
    /\ lastOp' = [NoOp EXCEPT !.op = "destroy", !.before = spritesToUpdate,
                              !.sprite = s]
    /\ Reclaim
    /\ UNCHANGED <<tilemap, minimapSprite, spritesToUpdate, scheduled, fault, call, ret>>

Next ==
    \/ \E scale \in TrackerScales, borderWidth \in TrackerBorders :
            CreateMinimapSprite(scale, borderWidth, BorderColor)
    \/ \E sprite \in SpriteRefs, spriteScale \in TrackerSpriteScales :
            AddSpriteToUpdateList(sprite, spriteScale)
    \/ \E sprite \in SpriteRefs : RemoveSpriteFromUpdateList(sprite)
    \/ UpdateMiniMapEvery
    \/ Tick
    \/ \E s \in Sprites : DestroySprite(s)

Spec == Init /\ [][Next]_vars

----------------------------------------------------------------------------
(* Direct calls of renderScaledImage and includeSprite.                    *)

\* source images: every size up to MaxSrc, solid, transparent, or chequered
SourceImages ==
    {[width |-> w, height |-> h,
      px |-> [p \in Pixels(w, h) |->
                CASE kind = "solid" -> 6
                  [] kind = "clear" -> 0
                  [] OTHER -> IF (p[1] + p[2]) % 2 = 0 THEN 6 ELSE 0]] :
        w \in 1..MaxSrc, h \in 1..MaxSrc, kind \in {"solid", "clear", "chequered"}}

\* a destination large enough for every source at every origin, no pixel 0
DestinationImage ==
    ImageFill(ImageCreate(MaxOrigin + MaxSrc + 1, MaxOrigin + MaxSrc + 1), 7)

RenderCalls ==
    [op : {"render"}, source : SourceImages, destination : {DestinationImage},
     x : 0..MaxOrigin, y : 0..MaxOrigin, scale : MinimapScale]

\* the tile grid of the scene of the direct calls: 2 x 2 tiles of 2 x 2 pixels
DrawTilemap ==
    [scale |-> 1, rows |-> 2, cols |-> 2,
     tiles |-> [cr \in (0..1) \X (0..1) |-> 1 + ((cr[1] + cr[2]) % 2)]]

WorldWidth(tm) == IF tm = NoTilemap THEN areaWidth(DrawTilemap) ELSE areaWidth(tm)
WorldHeight(tm) == IF tm = NoTilemap THEN areaHeight(DrawTilemap) ELSE areaHeight(tm)

\* the sprite's bounding box, centred on (x, y), lies inside the world
InsideWorld(sprite, tm) ==
    /\ 2 * sprite.x - SpriteWidth(sprite) >= 0
    /\ 2 * sprite.x + SpriteWidth(sprite) <= 2 * WorldWidth(tm)
    /\ 2 * sprite.y - SpriteHeight(sprite) >= 0
    /\ 2 * sprite.y + SpriteHeight(sprite) <= 2 * WorldHeight(tm)

IncludeCalls ==
    {[op |-> "include", tilemap |-> tm,
      minimap |-> getMinimapObject(tm, scale, borderWidth, BorderColor),
      sprite |-> sprite, spriteScale |-> spriteScale] :
        tm \in {NoTilemap, DrawTilemap}, scale \in MinimapScale,
        borderWidth \in 0..MaxBorder, spriteScale \in MinimapSpriteScale,
        sprite \in {sp \in [x : 0..areaWidth(DrawTilemap), y : 0..areaHeight(DrawTilemap),
                            image : SourceImages, flags : {{}}] :
                        sp.x = sp.y /\ InsideWorld(sp, DrawTilemap)}}

InitDraw ==
    /\ tilemap = NoTilemap
    /\ spriteTable = <<>>
    /\ minimapSprite = Unset
    /\ spritesToUpdate = <<>>
    /\ images = EmptyHeap
    /\ minimaps = EmptyHeap
    /\ scheduled = FALSE
    /\ fault = "none"
    /\ lastOp = NoOp
    /\ call \in RenderCalls \cup IncludeCalls
    /\ ret = NoCall

tracker == <<tilemap, spriteTable, minimapSprite, spritesToUpdate, images,
             minimaps, scheduled, fault, lastOp>>

CallRenderScaledImage ==
    /\ call.op = "render"
    /\ ret = NoCall
    /\ ret' = [op |-> "render",
               writes |-> RenderWrites(call.source, call.x, call.y, call.scale),
               image |-> renderScaledImage(call.source, call.destination,
                                           call.x, call.y, call.scale)]
    /\ UNCHANGED <<tracker, call>>

CallIncludeSprite ==
    /\ call.op = "include"
    /\ ret = NoCall
    /\ ret' = [op |-> "include",
               writes |-> OverlayWrites(call.minimap, call.sprite, call.spriteScale),
               image |-> includeSprite(call.minimap, call.sprite, call.spriteScale)]
    /\ UNCHANGED <<tracker, call>>

NextDraw == CallRenderScaledImage \/ CallIncludeSprite

SpecDraw == InitDraw /\ [][NextDraw]_vars

----------------------------------------------------------------------------
(* Direct calls of getMinimapObject.                                       *)

Grids ==
    {[scale |-> e, rows |-> rows, cols |-> cols,
      tiles |-> [cr \in (0..(cols - 1)) \X (0..(rows - 1)) |->
                    IF mixed THEN 1 + ((cr[1] + cr[2]) % 2) ELSE 1]] :
        e \in 0..MaxTileScale, rows \in 1..MaxGrid, cols \in 1..MaxGrid,
        mixed \in BOOLEAN}

BuildCalls ==
    [op : {"build"}, tilemap : Grids \cup {NoTilemap}, scale : MinimapScale,
     borderWidth : 0..MaxBorder, borderColor : {BorderColor}]

InitBuild ==
    /\ tilemap = NoTilemap
    /\ spriteTable = <<>>
    /\ minimapSprite = Unset
    /\ spritesToUpdate = <<>>
    /\ images = EmptyHeap
    /\ minimaps = EmptyHeap
    /\ scheduled = FALSE
    /\ fault = "none"
    /\ lastOp = NoOp
    /\ call \in BuildCalls
    /\ ret = NoCall

CallGetMinimapObject ==
    /\ call.op = "build"
    /\ ret = NoCall
    /\ ret' = [op |-> "build",
               writes |-> IF call.tilemap = NoTilemap THEN {}
                          ELSE TileWrites(call.tilemap, call.scale, call.borderWidth),
               minimap |-> getMinimapObject(call.tilemap, call.scale,
                                            call.borderWidth, call.borderColor)]
    /\ UNCHANGED <<tracker, call>>

NextBuild == CallGetMinimapObject

SpecBuild == InitBuild /\ [][NextBuild]_vars

----------------------------------------------------------------------------
(* Direct calls of removeSpriteFromUpdateList on every update list.        *)

Entries == [sprite : SpriteRefs, scale : TrackerSpriteScales]

RECURSIVE Lists(_)
Lists(n) ==
    IF n = 0 THEN {<<>>}
    ELSE LET shorter == Lists(n - 1)
         IN  shorter \cup {Append(l, e) : l \in {m \in shorter : Len(m) = n - 1},
                                          e \in Entries}

RemoveCalls == [op : {"remove"}, list : Lists(MaxList + 1), sprite : SpriteRefs]

InitList ==
    /\ tilemap = NoTilemap
    /\ spriteTable = <<>>
    /\ minimapSprite = Unset
    /\ spritesToUpdate = <<>>
    /\ images = EmptyHeap
    /\ minimaps = EmptyHeap
    /\ scheduled = FALSE
    /\ fault = "none"
    /\ lastOp = NoOp
    /\ call \in RemoveCalls
    /\ ret = NoCall

\* the call, on the list as the previous call left it
CallRemoveSpriteFromUpdateList ==
    /\ call.op = "remove"
    /\ IF ret = NoCall THEN TRUE ELSE ret.calls = 1
    /\ LET list == IF ret = NoCall THEN call.list ELSE ret.list
       IN  ret' = [op |-> "remove", before |-> list,
                   list |-> removeSpriteFromUpdateList(list, call.sprite),
                   calls |-> IF ret = NoCall THEN 1 ELSE ret.calls + 1]
    /\ UNCHANGED <<tracker, call>>

NextList == CallRemoveSpriteFromUpdateList

SpecList == InitList /\ [][NextList]_vars

----------------------------------------------------------------------------
(* Properties.                                                             *)

\* `after' is `before' without the entries that fail Keep, the others in
\* their order: the n-th kept entry of `before' is the n-th entry of `after'
KeptInOrder(before, after, Keep(_)) ==
    LET kept == {i \in 1..Len(before) : Keep(before[i])}
    IN  /\ Len(after) = Cardinality(kept)
        /\ \A i \in kept : after[Cardinality({j \in kept : j <= i})] = before[i]

\* the sprite is null or the host has flagged it Destroyed
Dead(sprite) == sprite = NULL \/ "Destroyed" \in spriteTable[sprite].flags

\* img with the entries stamped on it one after the other
RECURSIVE Stamped(_, _, _, _)
Stamped(minimap, img, entries, k) ==
    IF k > Len(entries) THEN img
    ELSE Stamped(minimap,
                 includeSprite([minimap EXCEPT !.image = img],
                               spriteTable[entries[k].sprite], entries[k].scale),
                 entries, k + 1)

\* C1: after a refresh tick the update list holds no entry of a destroyed
\* (null or flagged) sprite, and the entries of the other sprites are all
\* still there, in their order.
C1_TickPrunesDestroyed ==
    lastOp.op = "tick" =>
        /\ \A i \in 1..Len(spritesToUpdate) : ~Dead(spritesToUpdate[i].sprite)
        /\ KeptInOrder(lastOp.before, spritesToUpdate, LAMBDA u : ~Dead(u.sprite))

\* a tick that removed entries and kept others
C1_Witness ==
    /\ lastOp.op = "tick"
    /\ Len(spritesToUpdate) > 0
    /\ Len(spritesToUpdate) < Len(lastOp.before)

\* C2: a tick stamps every tracked sprite that is alive onto its output
\* image; a tracked sprite that was destroyed stays in the list until the
\* next tick, which stamps nothing for it and leaves it out of the list.
C2_Lifecycle ==
    /\ lastOp.op = "destroy" => spritesToUpdate = lastOp.before
    /\ lastOp.op = "tick" =>
        LET mm == minimaps[minimapSprite.data]
            alive == SelectSeq(lastOp.before, LAMBDA u : ~Dead(u.sprite))
        IN  /\ \A i \in 1..Len(lastOp.before) :
                    LET u == lastOp.before[i]
                    IN  IF Dead(u.sprite)
                        THEN /\ \A k \in 1..Len(lastOp.stamps) :
                                    lastOp.stamps[k].sprite # u.sprite
                             /\ \A k \in 1..Len(spritesToUpdate) :
                                    spritesToUpdate[k].sprite # u.sprite
                        ELSE \E k \in 1..Len(lastOp.stamps) : lastOp.stamps[k] = u
            /\ images[mm.image] =
                    Stamped(mm, MinimapImage(tilemap, mm.scale, mm.borderWidth,
                                             mm.borderColor), alive, 1)

\* a tick that met a tracked sprite the host had destroyed
C2_Witness ==
    /\ lastOp.op = "tick"
    /\ \E i \in 1..Len(lastOp.before) :
            /\ lastOp.before[i].sprite # NULL
            /\ Dead(lastOp.before[i].sprite)

\* C3: removeSpriteFromUpdateList(S) removes exactly the entries of S, all
\* of them, and keeps the others in their order with their scale; for a
\* sprite not in the list, and when called a second time, it changes nothing.
C3_RemoveFilters ==
    ret.op = "remove" =>
        /\ KeptInOrder(ret.before, ret.list, LAMBDA u : u.sprite # call.sprite)
        /\ \A i \in 1..Len(ret.list) : ret.list[i].sprite # call.sprite
        /\ (\A i \in 1..Len(ret.before) : ret.before[i].sprite # call.sprite)
                => ret.list = ret.before
        /\ ret.calls > 1 => ret.list = ret.before

\* a call that removed two entries of the sprite and kept another entry
C3_Witness ==
    /\ ret.op = "remove"
    /\ Len(ret.list) > 0
    /\ Len(ret.before) > Len(ret.list) + 1

\* C4: addSpriteToUpdateList appends one entry and changes no other, also
\* for a sprite already in the list; on a tick a sprite that is alive is
\* stamped once per entry, in the order of the list, with the entry's scale.
C4_NoDeduplication ==
    /\ lastOp.op = "addSpriteToUpdateList" =>
            /\ Len(spritesToUpdate) = Len(lastOp.before) + 1
            /\ SubSeq(spritesToUpdate, 1, Len(lastOp.before)) = lastOp.before
            /\ spritesToUpdate[Len(spritesToUpdate)] =
                    [sprite |-> lastOp.sprite, scale |-> lastOp.scale]
    /\ lastOp.op = "tick" =>
            /\ KeptInOrder(lastOp.before, lastOp.stamps, LAMBDA u : ~Dead(u.sprite))
            /\ \A s \in Sprites :
                    ~Dead(s) =>
                        Cardinality({k \in 1..Len(lastOp.stamps) :
                                        lastOp.stamps[k].sprite = s})
                          = Cardinality({i \in 1..Len(lastOp.before) :
                                            lastOp.before[i].sprite = s})

\* a tick that stamped one sprite twice, at two scales
C4_Witness ==
    /\ lastOp.op = "tick"
    /\ \E j, k \in 1..Len(lastOp.stamps) :
            /\ j < k
            /\ lastOp.stamps[j].sprite = lastOp.stamps[k].sprite
            /\ lastOp.stamps[j].scale # lastOp.stamps[k].scale

\* C5: renderScaledImage writes only inside
\* [x, x + (source.width >> scale)) by [y, y + (source.height >> scale)).
C5_WritesInsideScaledRectangle ==
    ret.op = "render" =>
        \A w \in ret.writes :
            /\ call.x <= w.x /\ w.x < call.x + Shr(call.source.width, call.scale)
            /\ call.y <= w.y /\ w.y < call.y + Shr(call.source.height, call.scale)

\* C6: every pixel the tile loop of getMinimapObject writes lies inside the
\* image, within its interior [b, width - b) by [b, height - b), so that the
\* margin of b pixels keeps borderColor.
C6_TilesInsideInterior ==
    ret.op = "build" =>
        LET b == call.borderWidth
            img == ret.minimap.image
        IN  /\ \A w \in ret.writes :
                    /\ b <= w.x /\ w.x < img.width - b
                    /\ b <= w.y /\ w.y < img.height - b
            /\ (b > 0 /\ call.tilemap # NoTilemap) =>
                    \A p \in DOMAIN img.px :
                        (\/ p[1] < b \/ p[1] >= img.width - b
                         \/ p[2] < b \/ p[2] >= img.height - b)
                            => img.px[p] = call.borderColor

\* C7: renderScaledImage changes a destination pixel only to a non-zero
\* value of the source, so no pixel is ever set to 0, and includeSprite of a
\* sprite whose image is all zeros leaves the minimap image as it was.
C7_TransparentPixelsKeepDestination ==
    /\ ret.op = "render" =>
            /\ DOMAIN ret.image.px = DOMAIN call.destination.px
            /\ \A p \in DOMAIN call.destination.px :
                    \/ ret.image.px[p] = call.destination.px[p]
                    \/ /\ ret.image.px[p] # 0
                       /\ \E q \in DOMAIN call.source.px :
                                call.source.px[q] = ret.image.px[p]
    /\ ret.op = "include" =>
            /\ \A p \in DOMAIN call.minimap.image.px :
                    call.minimap.image.px[p] # 0 => ret.image.px[p] # 0
            /\ (\A q \in DOMAIN call.sprite.image.px : call.sprite.image.px[q] = 0)
                    => ret.image = call.minimap.image

\* includeSprite of an all-zero sprite placed on a coloured minimap pixel
C7_Witness ==
    /\ ret.op = "include"
    /\ \A q \in DOMAIN call.sprite.image.px : call.sprite.image.px[q] = 0
    /\ LET x == OverlayX(call.minimap, call.sprite, call.spriteScale)
           y == OverlayY(call.minimap, call.sprite, call.spriteScale)
       IN  /\ InImage(call.minimap.image, x, y)
           /\ GetPixel(call.minimap.image, x, y) # 0

\* C8: a tick builds a new Minimap object with a new image and changes
\* neither the object nor the image the display held before; the display
\* then holds the new object, with the scale, borderWidth and borderColor
\* of the old one, and shows the new object's image.
C8_TickBuildsNewInstance ==
    lastOp.op = "tick" =>
        /\ minimapSprite.data \notin DOMAIN lastOp.minimapsBefore
        /\ minimapSprite.image \notin DOMAIN lastOp.imagesBefore
        /\ \A m \in DOMAIN lastOp.minimapsBefore : minimaps[m] = lastOp.minimapsBefore[m]
        /\ \A i \in DOMAIN lastOp.imagesBefore : images[i] = lastOp.imagesBefore[i]
        /\ minimaps[minimapSprite.data].image = minimapSprite.image
        /\ LET old == lastOp.minimapsBefore[lastOp.old.data]
               new == minimaps[minimapSprite.data]
           IN  /\ new.scale = old.scale
               /\ new.borderWidth = old.borderWidth
               /\ new.borderColor = old.borderColor
               /\ new.image # old.image

\* a tick whose overlays changed pixels of the new image
C8_Witness ==
    /\ lastOp.op = "tick"
    /\ lastOp.stamps # <<>>
    /\ LET mm == minimaps[minimapSprite.data]
       IN  images[mm.image] #
                MinimapImage(tilemap, mm.scale, mm.borderWidth, mm.borderColor)

\* C9: the callback never runs while minimapSprite is unset.
C9_TickOnlyWhenActive == lastOp.op # "tick failed" /\ fault = "none"

\* C10: every pixel includeSprite writes, for a sprite that is alive and
\* whose bounding box lies inside the world, is inside the minimap image.
C10_OverlayInsideImage ==
    ret.op = "include" =>
        \A w \in ret.writes : InImage(call.minimap.image, w.x, w.y)

====
